---- MODULE Spec2Model ----
(***************************************************************************)
(* Polish Trainer Bot: the quiz session engine of src/bot.py (the aiogram  *)
(* revision) as a state machine.                                           *)
(*                                                                         *)
(* Text is modelled as sequences of Unicode code points, so that           *)
(* str.strip, str.lower, NFD decomposition and the removal of combining    *)
(* marks are computed character by character as the code computes them.    *)
(*                                                                         *)
(* Handlers are coroutines.  The storage is aiogram's MemoryStorage        *)
(* (bot.py:352), whose operations never yield to the event loop, so a      *)
(* handler can only be suspended at an await of a Telegram request         *)
(* (message.answer, cb.answer, bot.get_file, bot.download).  The code      *)
(* between two such awaits is one atomic step; the continuation of a       *)
(* suspended handler is a task in `tasks`.                                 *)
(*                                                                         *)
(* on_answer is registered for QuizStates.waiting_for_answer (bot.py:896), *)
(* and no handler ever sets that state: the only set_state of the file is  *)
(* import_cat's (bot.py:789).  The action on_answer below is the handler   *)
(* as it is written, run on a text message without the dispatcher's state  *)
(* filter; fsm_state records the state the dispatcher would have seen.     *)
(*                                                                         *)
(* src/polish_trainer_bot.py is the command-line revision, a separate      *)
(* single-threaded program; its state is the variable cli and its quiz is  *)
(* the specification SpecCli.                                              *)
(***************************************************************************)
EXTENDS Integers, Sequences, FiniteSets, Bags, TLC

VARIABLES
    vocabulary,     \* trainer.vocabulary: the dict as its list of (pl, ru) items
    categories,     \* trainer.categories: key -> list of terms
    user_scores,    \* trainer.user_scores: uid -> stats
    user_prefs,     \* trainer.user_prefs: uid -> prefs
    quiz_sessions,  \* trainer.quiz_sessions: uid -> reference to a session dict
    heap,           \* the session dicts, by reference
    fsm_state,      \* FSMContext state of each user
    fsm_data,       \* FSMContext data of each user
    tasks,          \* bag of suspended handlers (their continuations)
    outbox,         \* the Telegram message sent by the last step
    nupdates,       \* number of updates delivered so far (bounds the run)
    nops,           \* history: answer/skip operations applied to each session dict
    finished,       \* history: the session dict the last step's summary was made from
    call,           \* the last call of an answer-normalizer function: arguments, result
    cli             \* the command-line revision: its PolishTrainerBot and its position

vars == <<vocabulary, categories, user_scores, user_prefs, quiz_sessions, heap,
          fsm_state, fsm_data, tasks, outbox, nupdates, nops, finished, call, cli>>

(***************************************************************************)
(* Bounds of the model.                                                    *)
(***************************************************************************)
MaxUpdates == 4
MaxTasks == 2

\* The users the FSM storage has a context for, and those who send updates.
AllUsers == {1, 2}
Users == {1}

\* Python's None where a str is expected (a category key).
None == "None"
\* Python's None where an int is expected: _word_to_number_pl's "no numeral",
\* and data.get("user_id") of an FSM context that holds no user_id.
NoNumber == -1
NoUid == 0

(***************************************************************************)
(* Text: code points, str.strip / str.lower / str.split, unicodedata.      *)
(***************************************************************************)
\* Whitespace of the model alphabet: TAB, LF, SPACE.
IsSpace(c) == c \in {9, 10, 32}

\* unicodedata.category(c) == "Mn" on the model alphabet: combining acute,
\* breve, dot above, diaeresis, ogonek.
IsMn(c) == c \in {769, 774, 775, 776, 808}

\* str.lower() on one character: ASCII, Latin-1 O-acute, Latin Extended-A
\* (Polish letters), Cyrillic.
LowerChar(c) ==
    IF c >= 65 /\ c <= 90 THEN c + 32
    ELSE IF c = 211 THEN 243
    ELSE IF c \in {260, 262, 280, 321, 323, 346, 377, 379} THEN c + 1
    ELSE IF c >= 1040 /\ c <= 1071 THEN c + 32
    ELSE IF c = 1025 THEN 1105
    ELSE c

\* unicodedata.normalize("NFD", c) on one character.
NFDChar(c) ==
    CASE c = 261 -> <<97, 808>>
      [] c = 263 -> <<99, 769>>
      [] c = 281 -> <<101, 808>>
      [] c = 324 -> <<110, 769>>
      [] c = 243 -> <<111, 769>>
      [] c = 347 -> <<115, 769>>
      [] c = 378 -> <<122, 769>>
      [] c = 380 -> <<122, 775>>
      [] c = 260 -> <<65, 808>>
      [] c = 262 -> <<67, 769>>
      [] c = 280 -> <<69, 808>>
      [] c = 323 -> <<78, 769>>
      [] c = 211 -> <<79, 769>>
      [] c = 346 -> <<83, 769>>
      [] c = 377 -> <<90, 769>>
      [] c = 379 -> <<90, 775>>
      [] c = 1081 -> <<1080, 774>>
      [] c = 1105 -> <<1077, 776>>
      [] c = 1049 -> <<1048, 774>>
      [] c = 1025 -> <<1045, 776>>
      [] OTHER -> <<c>>

RECURSIVE Strip(_)
Strip(s) ==
    IF s = <<>> THEN s
    ELSE IF IsSpace(Head(s)) THEN Strip(Tail(s))
    ELSE IF IsSpace(s[Len(s)]) THEN Strip(SubSeq(s, 1, Len(s) - 1))
    ELSE s

Lower(s) == [i \in 1..Len(s) |-> LowerChar(s[i])]

RECURSIVE NFD(_)
NFD(s) == IF s = <<>> THEN <<>> ELSE NFDChar(Head(s)) \o NFD(Tail(s))

RECURSIVE DropMn(_)
DropMn(s) ==
    IF s = <<>> THEN <<>>
    ELSE IF IsMn(Head(s)) THEN DropMn(Tail(s))
    ELSE <<Head(s)>> \o DropMn(Tail(s))

\* bot.py:39-42
_strip_accents(s) == DropMn(NFD(Lower(Strip(s))))

\* str.split(): the maximal runs of non-whitespace characters.
RECURSIVE SplitFrom(_, _)
SplitFrom(s, cur) ==
    IF s = <<>> THEN (IF cur = <<>> THEN <<>> ELSE <<cur>>)
    ELSE IF IsSpace(Head(s))
         THEN (IF cur = <<>> THEN <<>> ELSE <<cur>>) \o SplitFrom(Tail(s), <<>>)
         ELSE SplitFrom(Tail(s), Append(cur, Head(s)))

Split(s) == SplitFrom(s, <<>>)

\* str(n) for n >= 0: the decimal digits.
RECURSIVE Str(_)
Str(n) == IF n < 10 THEN <<48 + n>> ELSE Str(n \div 10) \o <<48 + (n % 10)>>

\* str.isdigit() on the model alphabet.
IsDigit(s) == s # <<>> /\ \A i \in 1..Len(s) : s[i] >= 48 /\ s[i] <= 57

\* Python's order on str: lexicographic by code point.
RECURSIVE StrLess(_, _)
StrLess(a, b) ==
    IF b = <<>> THEN FALSE
    ELSE IF a = <<>> THEN TRUE
    ELSE IF Head(a) # Head(b) THEN Head(a) < Head(b)
    ELSE StrLess(Tail(a), Tail(b))

\* All the lists that sorted(S, key=_strip_accents) can return for a set S:
\* the order of elements with equal keys follows the iteration order of the
\* set, which the hash seed decides.
RECURSIVE Arrangements(_)
Arrangements(S) ==
    IF S = {} THEN {<<>>}
    ELSE UNION {{<<x>> \o r : r \in Arrangements(S \ {x})} : x \in S}

SortedByStripAccents(S) ==
    {r \in Arrangements(S) :
        \A i \in 1..(Len(r) - 1) :
            ~StrLess(_strip_accents(r[i + 1]), _strip_accents(r[i]))}

SeqToSet(s) == {s[i] : i \in 1..Len(s)}

(***************************************************************************)
(* Numerals.  bot.py:46-111                                                *)
(***************************************************************************)
_NUM_WORD == {
    <<<<122, 101, 114, 111>>, 0>>,
    <<<<106, 101, 100, 101, 110>>, 1>>,
    <<<<100, 119, 97>>, 2>>,
    <<<<116, 114, 122, 121>>, 3>>,
    <<<<99, 122, 116, 101, 114, 121>>, 4>>,
    <<<<112, 105, 101, 99>>, 5>>,
    <<<<112, 105, 281, 263>>, 5>>,
    <<<<115, 122, 101, 115, 99>>, 6>>,
    <<<<115, 122, 101, 347, 263>>, 6>>,
    <<<<115, 105, 101, 100, 101, 109>>, 7>>,
    <<<<111, 115, 105, 101, 109>>, 8>>,
    <<<<100, 122, 105, 101, 119, 105, 101, 99>>, 9>>,
    <<<<100, 122, 105, 101, 119, 105, 281, 263>>, 9>>,
    <<<<100, 122, 105, 101, 115, 105, 101, 99>>, 10>>,
    <<<<100, 122, 105, 101, 115, 105, 281, 263>>, 10>>,
    <<<<106, 101, 100, 101, 110, 97, 115, 99, 105, 101>>, 11>>,
    <<<<106, 101, 100, 101, 110, 97, 347, 99, 105, 101>>, 11>>,
    <<<<100, 119, 97, 110, 97, 115, 99, 105, 101>>, 12>>,
    <<<<100, 119, 97, 110, 97, 347, 99, 105, 101>>, 12>>,
    <<<<116, 114, 122, 121, 110, 97, 115, 99, 105, 101>>, 13>>,
    <<<<116, 114, 122, 121, 110, 97, 347, 99, 105, 101>>, 13>>,
    <<<<99, 122, 116, 101, 114, 110, 97, 115, 99, 105, 101>>, 14>>,
    <<<<99, 122, 116, 101, 114, 110, 97, 347, 99, 105, 101>>, 14>>,
    <<<<112, 105, 101, 116, 110, 97, 115, 99, 105, 101>>, 15>>,
    <<<<112, 105, 281, 116, 110, 97, 347, 99, 105, 101>>, 15>>,
    <<<<115, 122, 101, 115, 110, 97, 115, 99, 105, 101>>, 16>>,
    <<<<115, 122, 101, 115, 110, 97, 347, 99, 105, 101>>, 16>>,
    <<<<115, 105, 101, 100, 101, 109, 110, 97, 115, 99, 105, 101>>, 17>>,
    <<<<115, 105, 101, 100, 101, 109, 110, 97, 347, 99, 105, 101>>, 17>>,
    <<<<111, 115, 105, 101, 109, 110, 97, 115, 99, 105, 101>>, 18>>,
    <<<<111, 115, 105, 101, 109, 110, 97, 347, 99, 105, 101>>, 18>>,
    <<<<100, 122, 105, 101, 119, 105, 101, 116, 110, 97, 115, 99, 105, 101>>, 19>>,
    <<<<100, 122, 105, 101, 119, 105, 281, 116, 110, 97, 347, 99, 105, 101>>, 19>>,
    <<<<100, 119, 97, 100, 122, 105, 101, 115, 99, 105, 97>>, 20>>,
    <<<<100, 119, 97, 100, 122, 105, 101, 347, 99, 105, 97>>, 20>>,
    <<<<116, 114, 122, 121, 100, 122, 105, 101, 115, 99, 105>>, 30>>,
    <<<<116, 114, 122, 121, 100, 122, 105, 101, 347, 99, 105>>, 30>>,
    <<<<99, 122, 116, 101, 114, 100, 122, 105, 101, 115, 99, 105>>, 40>>,
    <<<<99, 122, 116, 101, 114, 100, 122, 105, 101, 347, 99, 105>>, 40>>,
    <<<<112, 105, 101, 99, 100, 122, 105, 101, 115, 105, 97, 116>>, 50>>,
    <<<<112, 105, 281, 263, 100, 122, 105, 101, 115, 105, 261, 116>>, 50>>,
    <<<<115, 122, 101, 115, 99, 100, 122, 105, 101, 115, 105, 97, 116>>, 60>>,
    <<<<115, 122, 101, 347, 263, 100, 122, 105, 101, 115, 105, 261, 116>>, 60>>,
    <<<<115, 105, 101, 100, 101, 109, 100, 122, 105, 101, 115, 105, 97, 116>>, 70>>,
    <<<<115, 105, 101, 100, 101, 109, 100, 122, 105, 101, 115, 105, 261, 116>>, 70>>,
    <<<<111, 115, 105, 101, 109, 100, 122, 105, 101, 115, 105, 97, 116>>, 80>>,
    <<<<111, 115, 105, 101, 109, 100, 122, 105, 101, 115, 105, 261, 116>>, 80>>,
    <<<<100, 122, 105, 101, 119, 105, 101, 99, 100, 122, 105, 101, 115, 105, 97, 116>>, 90>>,
    <<<<100, 122, 105, 101, 119, 105, 281, 263, 100, 122, 105, 101, 115, 105, 261, 116>>, 90>>,
    <<<<115, 116, 111>>, 100>>,
    <<<<100, 119, 105, 101, 115, 99, 105, 101>>, 200>>,
    <<<<100, 119, 105, 101, 347, 99, 105, 101>>, 200>>,
    <<<<116, 114, 122, 121, 115, 116, 97>>, 300>>,
    <<<<99, 122, 116, 101, 114, 121, 115, 116, 97>>, 400>>,
    <<<<112, 105, 101, 99, 115, 101, 116>>, 500>>,
    <<<<112, 105, 281, 263, 115, 101, 116>>, 500>>,
    <<<<115, 122, 101, 115, 99, 115, 101, 116>>, 600>>,
    <<<<115, 122, 101, 347, 263, 115, 101, 116>>, 600>>,
    <<<<115, 105, 101, 100, 101, 109, 115, 101, 116>>, 700>>,
    <<<<111, 115, 105, 101, 109, 115, 101, 116>>, 800>>,
    <<<<100, 122, 105, 101, 119, 105, 101, 99, 115, 101, 116>>, 900>>,
    <<<<100, 122, 105, 101, 119, 105, 281, 263, 115, 101, 116>>, 900>>,
    <<<<116, 121, 115, 105, 97, 99>>, 1000>>,
    <<<<116, 121, 115, 105, 261, 99>>, 1000>>
}

NumWordHas(t) == \E e \in _NUM_WORD : e[1] = t
NumWordVal(t) == (CHOOSE e \in _NUM_WORD : e[1] = t)[2]

RECURSIVE SumParts_skips_unknown(_, _)
\* Faulty variant of SumParts: an unknown part is skipped, so the recognized
\* parts still add up.
SumParts_skips_unknown(parts, total) ==
    IF parts = <<>> THEN total
    ELSE IF NumWordHas(Head(parts))
         THEN SumParts_skips_unknown(Tail(parts), total + NumWordVal(Head(parts)))
         ELSE SumParts_skips_unknown(Tail(parts), total)

RECURSIVE SumParts(_, _)
\* bot.py:121-126: the loop over parts; None as soon as a part is unknown.
SumParts(parts, total) ==
    IF parts = <<>> THEN total
    ELSE IF NumWordHas(Head(parts))
         THEN SumParts(Tail(parts), total + NumWordVal(Head(parts)))
         ELSE NoNumber

\* Faulty variant of _word_to_number_pl: the value looked up is returned
\* through the same `total if total else None` as the sum.
_word_to_number_pl_zero_falsy(s) ==
    LET t == _strip_accents(s)
        parts == Split(t)
        total == IF NumWordHas(t) THEN NumWordVal(t)
                 ELSE IF parts = <<>> THEN NoNumber
                 ELSE SumParts(parts, 0)
    IN  IF total = NoNumber \/ total = 0 THEN NoNumber ELSE total

\* bot.py:114-127
_word_to_number_pl(s) ==
    LET t == _strip_accents(s)
        parts == Split(t)
    IN  IF NumWordHas(t) THEN NumWordVal(t)
        ELSE IF parts = <<>> THEN NoNumber
        ELSE LET total == SumParts(parts, 0)
             IN  IF total = NoNumber THEN NoNumber
                 ELSE IF total # 0 THEN total ELSE NoNumber

\* Faulty variant of valid_answers_set: the diacritic-free form is added
\* whether or not it differs from the lower-cased term.
valid_answers_set_always_folded(expected_pl) ==
    LET nodiac == _strip_accents(expected_pl)
        n == _word_to_number_pl(expected_pl)
    IN  {expected_pl, nodiac}
        \cup (IF n # NoNumber THEN {Str(n)} ELSE {})

\* bot.py:130-138: the set `answers` before it is sorted.
valid_answers_set(expected_pl) ==
    LET nodiac == _strip_accents(expected_pl)
        n == _word_to_number_pl(expected_pl)
    IN  {expected_pl}
        \cup (IF nodiac # Lower(expected_pl) THEN {nodiac} ELSE {})
        \cup (IF n # NoNumber THEN {Str(n)} ELSE {})

\* bot.py:130-139: every list the function can return.
valid_answers_pl(expected_pl) == SortedByStripAccents(valid_answers_set(expected_pl))

\* Faulty variant of equals_relaxed: the texts are compared as they are.
equals_relaxed_exact(user_text, valid) ==
    user_text \in SeqToSet(valid)

\* bot.py:142-144
equals_relaxed(user_text, valid) ==
    _strip_accents(user_text) \in {_strip_accents(valid[i]) : i \in 1..Len(valid)}

(***************************************************************************)
(* The data of the model: a reduced vocabulary, the texts users send and   *)
(* the CSV file they upload.                                               *)
(***************************************************************************)
PL_piec == <<112, 105, 281, 263>>                 \* "pięć"
RU_piec == <<1087, 1103, 1090, 1100>>             \* "пять"
PL_tak == <<116, 97, 107>>                        \* "tak"
RU_tak == <<1076, 1072>>                          \* "да"
PL_dwa == <<100, 119, 97>>                        \* "dwa"
RU_dwa == <<1076, 1074, 1072>>                    \* "два"
RU_tak2 == <<1090, 1072, 1082>>                   \* "так"
\* "pięćсet" as bot.py:270 spells it, with a Cyrillic "с": no vocabulary key.
PL_piecset_typo == <<112, 105, 281, 263, 1089, 101, 116>>

\* bot.py:175-244, reduced to two entries.
InitVocabulary == <<<<PL_piec, RU_piec>>, <<PL_tak, RU_tak>>>>

\* bot.py:247-278, reduced to two categories; each is sorted (bot.py:284).
InitCategories ==
    ("liczby_0_10" :> <<PL_piec>>) @@ ("liczby_100_1000" :> <<PL_piecset_typo>>)

\* bot.py:197-202: "jeden", "dwa", "trzy", "cztery", "pięć", "sześć", a
\* vocabulary longer than the shortest quiz.
StartVocabulary == <<
    <<<<106, 101, 100, 101, 110>>, <<1086, 1076, 1080, 1085>>>>,
    <<<<100, 119, 97>>, <<1076, 1074, 1072>>>>,
    <<<<116, 114, 122, 121>>, <<1090, 1088, 1080>>>>,
    <<<<99, 122, 116, 101, 114, 121>>, <<1095, 1077, 1090, 1099, 1088, 1077>>>>,
    <<<<112, 105, 281, 263>>, <<1087, 1103, 1090, 1100>>>>,
    <<<<115, 122, 101, 347, 263>>, <<1096, 1077, 1089, 1090, 1100>>>>
>>

\* bot.py:256-259 and 269-272, the category as bot.py:284 sorts it:
\* cztery, dwa, jeden, pięć, sześć, trzy.
StartCategories ==
    ("liczby_0_10" :> <<<<99, 122, 116, 101, 114, 121>>, <<100, 119, 97>>, <<106, 101, 100, 101, 110>>, <<112, 105, 281, 263>>, <<115, 122, 101, 347, 263>>, <<116, 114, 122, 121>>>>)
    @@ ("liczby_100_1000" :> <<PL_piecset_typo>>)

\* The texts of the messages users send while a quiz runs:
\* " PIEC ", "5", "ДА", "nie wiem".
AnswerTexts == {
    <<32, 80, 73, 69, 67, 32>>,
    <<53>>,
    <<1044, 1040>>,
    <<110, 105, 101, 32, 119, 105, 101, 109>>
}

\* The rows csv.reader yields for the uploaded file:
\*   " dwa ;два" / "tak;так" / " ;нет" / "nie"
CsvRows == <<
    <<<<32, 100, 119, 97, 32>>, RU_dwa>>,
    <<PL_tak, RU_tak2>>,
    <<<<32>>, <<1085, 1077, 1090>>>>,
    <<<<110, 105, 101>>>>
>>

\* Category keys that callback data can carry.
TrainCatKeys == {"liczby_0_10", "liczby_100_1000"}
ImportCatKeys == {"liczby_0_10", "rutyna"}

\* The lengths the keyboard offers (bot.py:496-498).
QuizLenButtons == {5, 10, 20}

Directions == {"pl_ru", "ru_pl"}

(***************************************************************************)
(* Python dicts as functions: d.get, d[k] = v, del d[k].                   *)
(***************************************************************************)
DictSet(d, k, v) == (k :> v) @@ d
DictDel(d, k) == [x \in (DOMAIN d) \ {k} |-> d[x]]

\* The insertion-ordered dict trainer.vocabulary, as its list of items.
VocabKeys(voc) == {voc[i][1] : i \in 1..Len(voc)}
VocabGet(voc, w) == voc[CHOOSE i \in 1..Len(voc) : voc[i][1] = w][2]
VocabSet(voc, w, ru) ==
    IF w \in VocabKeys(voc)
    THEN [i \in 1..Len(voc) |-> IF voc[i][1] = w THEN <<w, ru>> ELSE voc[i]]
    ELSE Append(voc, <<w, ru>>)

(***************************************************************************)
(* FSM context (MemoryStorage): state and data of a user.                  *)
(***************************************************************************)
NoState == "None"
WaitingCsv == "ImportStates:waiting_csv_for_category"
WaitingForAnswer == "QuizStates:waiting_for_answer"

\* The keys the handlers read, each with the value data.get() yields for a
\* missing key.  train_pool is written (bot.py:614) and never read.
EmptyData ==
    [train_cats |-> <<>>, import_category |-> None,
     correct_answer_list |-> <<>>, user_id |-> NoUid]

(***************************************************************************)
(* Messages.                                                               *)
(***************************************************************************)
Msg(to, kind, text, x, y, hint) ==
    [to |-> to, kind |-> kind, text |-> text, x |-> x, y |-> y, hint |-> hint]

NoMsg == Msg(NoUid, "none", <<>>, 0, 0, {})
Plain(to, kind) == Msg(to, kind, <<>>, 0, 0, {})

\* No normalizer call is being looked at: the handlers make theirs inside
\* their steps.
NoCall ==
    [fn |-> "none", s |-> <<>>, expected_pl |-> <<>>, valid |-> <<>>,
     text |-> <<>>, number |-> NoNumber, bool |-> FALSE,
     pool_keys |-> <<>>, items |-> <<>>, rows |-> <<>>, ckey |-> None]

\* polish_trainer_bot.py:10-75, 217, 236: the command-line PolishTrainerBot as
\* constructed, at the menu of run().  asked, i, correct_answers and
\* num_questions are take_quiz's locals; `asked` holds the positions, in
\* list(self.vocabulary.items()), of the entries of quiz_words already asked.
\* quizzes, score0, total0 and matching are history: the runs completed, the
\* counters when the current run began, and the answers of the run equal to
\* the expected translation up to case and surrounding whitespace.
CliStart ==
    [pc |-> "menu", score |-> 0, total_questions |-> 0,
     asked |-> {}, i |-> 0, correct_answers |-> 0, num_questions |-> 0,
     quizzes |-> 0, score0 |-> 0, total0 |-> 0, matching |-> 0]

(***************************************************************************)
(* The state the handlers work on, as one record, so that the calls a      *)
(* handler makes (ask_question, finish_quiz, ...) compose.                 *)
(***************************************************************************)
Cur ==
    [vocabulary |-> vocabulary, categories |-> categories,
     user_scores |-> user_scores, user_prefs |-> user_prefs,
     quiz_sessions |-> quiz_sessions, heap |-> heap,
     fsm_state |-> fsm_state, fsm_data |-> fsm_data,
     outbox |-> NoMsg, nops |-> nops, finished |-> 0]

\* The session dicts still referenced: by quiz_sessions or by a suspended
\* handler's local `sess`.  The others are garbage.
Live(st, tk) ==
    {st.quiz_sessions[u] : u \in DOMAIN st.quiz_sessions}
    \cup {t.sess : t \in BagToSet(tk)}

\* No summary in the last step.
NoFinish == [uid |-> NoUid, current_question |-> 0, score |-> 0, total |-> 0, nops |-> 0]

Commit(st, tk) ==
    LET live == Live(st, tk) \cap DOMAIN st.heap
    IN  /\ vocabulary' = st.vocabulary
        /\ categories' = st.categories
        /\ user_scores' = st.user_scores
        /\ user_prefs' = st.user_prefs
        /\ quiz_sessions' = st.quiz_sessions
        /\ heap' = [r \in live |-> st.heap[r]]
        /\ nops' = [r \in live |-> st.nops[r]]
        /\ fsm_state' = st.fsm_state
        /\ fsm_data' = st.fsm_data
        /\ outbox' = st.outbox
        /\ tasks' = tk
        /\ call' = call
        /\ cli' = cli
        /\ finished' = IF st.finished = 0 THEN NoFinish
                       ELSE [uid |-> st.outbox.to,
                             current_question |-> st.heap[st.finished].current_question,
                             score |-> st.heap[st.finished].score,
                             total |-> st.heap[st.finished].total,
                             nops |-> st.nops[st.finished]]

NewRef(st) == CHOOSE r \in 1..(Cardinality(DOMAIN st.heap) + 1) : r \notin DOMAIN st.heap

(***************************************************************************)
(* PolishTrainerBot: stats, prefs, pool.                                   *)
(***************************************************************************)
ZeroStats == [total_questions |-> 0, correct_answers |-> 0, quiz_count |-> 0]

\* Faulty variant of get_user_stats: the entry is created anew on every
\* access.
get_user_stats_recreates(scores, uid) ==
    DictSet(scores, uid, ZeroStats)

\* bot.py:315-322: the dict after the call.
get_user_stats(scores, uid) ==
    IF uid \in DOMAIN scores THEN scores ELSE DictSet(scores, uid, ZeroStats)

\* Faulty variant of update_user_score: a wrong answer is not counted as a
\* question asked.
update_user_score_only_correct(scores, uid, is_correct) ==
    LET s == get_user_stats(scores, uid)
    IN  IF is_correct
        THEN [s EXCEPT ![uid].total_questions = @ + 1,
                       ![uid].correct_answers = @ + 1]
        ELSE s

\* Faulty variant of update_user_score: the flag is ignored and every answer
\* counts as correct.
update_user_score_always_correct(scores, uid, is_correct) ==
    LET s == get_user_stats(scores, uid)
    IN  [s EXCEPT ![uid].total_questions = @ + 1,
                  ![uid].correct_answers = @ + 1]

\* Faulty variant of update_user_score: correct_answers is never touched.
update_user_score_total_only(scores, uid, is_correct) ==
    LET s == get_user_stats(scores, uid)
    IN  [s EXCEPT ![uid].total_questions = @ + 1]

\* bot.py:324-328
update_user_score(scores, uid, is_correct) ==
    LET s == get_user_stats(scores, uid)
    IN  [s EXCEPT ![uid].total_questions = @ + 1,
                  ![uid].correct_answers = IF is_correct THEN @ + 1 ELSE @]

DefaultQuizLen == 10

\* bot.py:330-333: the dict after the call.
get_user_prefs(prefs, uid) ==
    IF uid \in DOMAIN prefs THEN prefs
    ELSE DictSet(prefs, uid, [quiz_len |-> DefaultQuizLen])

RECURSIVE CategoryItems_keeps_missing(_, _)
\* Faulty variant of CategoryItems: a word the vocabulary does not have is
\* kept, paired with an empty translation.
CategoryItems_keeps_missing(voc, ws) ==
    IF ws = <<>> THEN <<>>
    ELSE <<<<Head(ws), IF Head(ws) \in VocabKeys(voc)
                       THEN VocabGet(voc, Head(ws)) ELSE <<>>>>>>
         \o CategoryItems_keeps_missing(voc, Tail(ws))

RECURSIVE CategoryItems(_, _)
\* bot.py:340-342
CategoryItems(voc, ws) ==
    IF ws = <<>> THEN <<>>
    ELSE (IF Head(ws) \in VocabKeys(voc)
          THEN <<<<Head(ws), VocabGet(voc, Head(ws))>>>> ELSE <<>>)
         \o CategoryItems(voc, Tail(ws))

RECURSIVE PoolItems(_, _, _)
\* bot.py:339-342
PoolItems(voc, cats, pool_keys) ==
    IF pool_keys = <<>> THEN <<>>
    ELSE CategoryItems(voc, IF Head(pool_keys) \in DOMAIN cats
                            THEN cats[Head(pool_keys)] ELSE <<>>)
         \o PoolItems(voc, cats, Tail(pool_keys))

\* bot.py:335-346
flat_items(voc, cats, pool_keys) ==
    IF pool_keys # <<>> THEN PoolItems(voc, cats, pool_keys) ELSE voc

\* bot.py:147-151: every value the dict can have after the call.
sort_categories_alphabetically(cats) ==
    {c \in [DOMAIN cats -> UNION {SortedByStripAccents(SeqToSet(cats[k])) : k \in DOMAIN cats}] :
        \A k \in DOMAIN cats : c[k] \in SortedByStripAccents(SeqToSet(cats[k]))}

Min(a, b) == IF a <= b THEN a ELSE b
Max(a, b) == IF a >= b THEN a ELSE b

\* Faulty variant of the slice: one element too many, words[:quiz_len + 1].
PySliceTo_OffByOne(words, n) ==
    SubSeq(words, 1, Min(n + 1, Len(words)))

\* words[:n], Python's slice: lenient about n > len(words), and from the end
\* for n < 0.
PySliceTo(words, n) ==
    IF n >= 0 THEN SubSeq(words, 1, Min(n, Len(words)))
    ELSE SubSeq(words, 1, Max(Len(words) + n, 0))

\* random.shuffle(words): every order of the list (by position, so that a
\* pair occurring twice stays twice).
Shuffles(words) ==
    {[i \in 1..Len(words) |-> words[p[i]]] : p \in Arrangements(1..Len(words))}

(***************************************************************************)
(* The quiz engine: ask_question, finish_quiz and the handlers.            *)
(***************************************************************************)
\* state.clear() for the FSM context of user u.
StateClear(st, u) ==
    [st EXCEPT !.fsm_state[u] = NoState, !.fsm_data[u] = EmptyData]

\* trainer.quiz_sessions.get(uid): the reference, or 0 for None.
SessionRef(st, uid) ==
    IF uid \in DOMAIN st.quiz_sessions THEN st.quiz_sessions[uid] ELSE 0

\* Faulty variant of finish_quiz: the `del trainer.quiz_sessions[uid]` is
\* missing, so the finished session stays stored.
finish_quiz_keeps_session(st, uid) ==
    IF SessionRef(st, uid) = 0 THEN st
    ELSE LET sess == st.heap[st.quiz_sessions[uid]]
             stats == get_user_stats(st.user_scores, uid)
         IN  [st EXCEPT
                 !.user_scores = [stats EXCEPT ![uid].quiz_count = @ + 1],
                 !.outbox = Msg(uid, "summary", <<>>, sess.score, sess.total, {}),
                 !.finished = st.quiz_sessions[uid]]

\* Faulty variant of finish_quiz: the registry is emptied
\* (trainer.quiz_sessions.clear()) instead of `del trainer.quiz_sessions[uid]`.
finish_quiz_clears_all(st, uid) ==
    IF SessionRef(st, uid) = 0 THEN st
    ELSE LET sess == st.heap[st.quiz_sessions[uid]]
             stats == get_user_stats(st.user_scores, uid)
         IN  [st EXCEPT
                 !.user_scores = [stats EXCEPT ![uid].quiz_count = @ + 1],
                 !.quiz_sessions = <<>>,
                 !.outbox = Msg(uid, "summary", <<>>, sess.score, sess.total, {}),
                 !.finished = st.quiz_sessions[uid]]

\* Faulty variant of finish_quiz: the summary is sent and the session removed,
\* but quiz_count is left as it was.
finish_quiz_no_count(st, uid) ==
    IF SessionRef(st, uid) = 0 THEN st
    ELSE LET sess == st.heap[st.quiz_sessions[uid]]
         IN  [st EXCEPT
                 !.user_scores = get_user_stats(st.user_scores, uid),
                 !.quiz_sessions = DictDel(st.quiz_sessions, uid),
                 !.outbox = Msg(uid, "summary", <<>>, sess.score, sess.total, {}),
                 !.finished = st.quiz_sessions[uid]]

\* bot.py:959-971.  The summary is the awaited message.
finish_quiz(st, uid) ==
    IF SessionRef(st, uid) = 0 THEN st
    ELSE LET sess == st.heap[st.quiz_sessions[uid]]
             stats == get_user_stats(st.user_scores, uid)
         IN  [st EXCEPT
                 !.user_scores = [stats EXCEPT ![uid].quiz_count = @ + 1],
                 !.quiz_sessions = DictDel(st.quiz_sessions, uid),
                 !.outbox = Msg(uid, "summary", <<>>, sess.score, sess.total, {}),
                 !.finished = st.quiz_sessions[uid]]

\* Faulty variant of ValidFor: pl_ru accepts the translation only.
ValidFor_translation_only(direction, pl, ru) ==
    IF direction = "pl_ru" THEN {<<ru>>} ELSE valid_answers_pl(pl)

\* bot.py:877-885: the lists `valid` can be for the pair (pl, ru).
ValidFor(direction, pl, ru) ==
    IF direction = "pl_ru"
    THEN {<<ru>> \o SelectSeq(v, IsDigit) : v \in valid_answers_pl(pl)}
    ELSE valid_answers_pl(pl)

\* Faulty variant of ask_question: the question is sent, but the accepted
\* answers cached in the FSM data are left as they were.
ask_question_keeps_list(st, u, uid) ==
    IF SessionRef(st, uid) = 0 THEN {st}
    ELSE LET sess == st.heap[st.quiz_sessions[uid]]
             i == sess.current_question
         IN  IF i >= sess.total THEN {finish_quiz(st, uid)}
             ELSE {[st EXCEPT
                       !.fsm_data[u].user_id = uid,
                       !.outbox = Msg(uid,
                                      IF sess.direction = "pl_ru"
                                      THEN "question_pl_ru" ELSE "question_ru_pl",
                                      IF sess.direction = "pl_ru"
                                      THEN sess.words[i + 1][1] ELSE sess.words[i + 1][2],
                                      i + 1, sess.total, {})]}

\* bot.py:869-893: every state the call can leave.  u is the user whose FSM
\* context `state` is, uid the key of the session.
ask_question(st, u, uid) ==
    IF SessionRef(st, uid) = 0 THEN {st}
    ELSE LET sess == st.heap[st.quiz_sessions[uid]]
             i == sess.current_question
         IN  IF i >= sess.total THEN {finish_quiz(st, uid)}
             ELSE LET pl == sess.words[i + 1][1]
                      ru == sess.words[i + 1][2]
                  IN  {[st EXCEPT
                           !.fsm_data[u].correct_answer_list = valid,
                           !.fsm_data[u].user_id = uid,
                           !.outbox = Msg(uid,
                                          IF sess.direction = "pl_ru"
                                          THEN "question_pl_ru" ELSE "question_ru_pl",
                                          IF sess.direction = "pl_ru" THEN pl ELSE ru,
                                          i + 1, sess.total, {})]
                       : valid \in ValidFor(sess.direction, pl, ru)}

\* bot.py:859-865: the new session dict.
NewSession(words, direction) ==
    [words |-> words, current_question |-> 0, score |-> 0,
     total |-> Len(words), direction |-> direction]

\* Faulty variant of install_session: a replaced session's score is carried
\* over into the new dict.
install_session_keeps_score(st, uid, r, session) ==
    LET old == IF uid \in DOMAIN st.quiz_sessions
               THEN st.heap[st.quiz_sessions[uid]].score ELSE 0
    IN  [st EXCEPT !.heap = DictSet(st.heap, r, [session EXCEPT !.score = old]),
                   !.nops = DictSet(st.nops, r, 0),
                   !.quiz_sessions = DictSet(st.quiz_sessions, uid, r)]

\* bot.py:859: trainer.quiz_sessions[uid] = <the new dict, at reference r>.
install_session(st, uid, r, session) ==
    [st EXCEPT !.heap = DictSet(st.heap, r, session),
               !.nops = DictSet(st.nops, r, 0),
               !.quiz_sessions = DictSet(st.quiz_sessions, uid, r)]

\* Faulty variant of quiz_start_body: the `if not words` guard (bot.py:850-852)
\* is missing, so an empty pool makes a session of no questions.
quiz_start_body_no_guard(st, u, direction) ==
    LET pool_keys == st.fsm_data[u].train_cats
        words == flat_items(st.vocabulary, st.categories, pool_keys)
        prefs == get_user_prefs(st.user_prefs, u)
        quiz_len == Min(prefs[u].quiz_len, Len(words))
        r == NewRef(st)
    IN  UNION {
          ask_question(
              install_session([st EXCEPT !.user_prefs = prefs], u, r,
                              NewSession(PySliceTo(sh, quiz_len), direction)),
              u, u)
          : sh \in Shuffles(words)}

\* bot.py:847-866 (after the awaited cb.answer): every state the call can leave.
quiz_start_body(st, u, direction) ==
    LET pool_keys == st.fsm_data[u].train_cats
        words == flat_items(st.vocabulary, st.categories, pool_keys)
    IN  IF words = <<>> THEN {[st EXCEPT !.outbox = Plain(u, "empty_pool")]}
        ELSE LET prefs == get_user_prefs(st.user_prefs, u)
                 quiz_len == Min(prefs[u].quiz_len, Len(words))
                 r == NewRef(st)
             IN  UNION {
                   ask_question(
                       install_session([st EXCEPT !.user_prefs = prefs], u, r,
                                       NewSession(PySliceTo(sh, quiz_len), direction)),
                       u, u)
                   : sh \in Shuffles(words)}

\* Faulty variant of Advance: the question just handled is also moved to the
\* end of the word list.
Advance_rotates(st, ref) ==
    [st EXCEPT !.heap[ref].current_question = @ + 1,
               !.heap[ref].words = IF @ = <<>> THEN @ ELSE Tail(@) \o <<Head(@)>>]

\* bot.py:921: sess["current_question"] += 1 on the dict `sess` refers to.
Advance(st, ref) ==
    [st EXCEPT !.heap[ref].current_question = @ + 1]

\* bot.py:922, 940
QuizOver(s) == s.current_question >= s.total

\* bot.py:921-926 and, word for word, 939-944: advance the dict `sess` refers
\* to, then finish the quiz or ask the next question.  Every outcome, each
\* with whether the handler is left suspended before its state.clear().
advance_and_continue(st, u, uid, ref) ==
    LET st1 == Advance(st, ref)
    IN  IF QuizOver(st1.heap[ref])
        THEN IF SessionRef(st1, uid) = 0
             THEN \* finish_quiz returns at once and state.clear() follows
                  {[st |-> StateClear(st1, u), suspended |-> FALSE]}
             ELSE {[st |-> finish_quiz(st1, uid), suspended |-> TRUE]}
        ELSE {[st |-> st2, suspended |-> FALSE] : st2 \in ask_question(st1, u, uid)}

\* History: one more answer/skip operation on the dict.
Count(st, ref) == [st EXCEPT !.nops[ref] = @ + 1]

\* bot.py:910-919: grading, up to the awaited result message.
Grade(st, u, uid, user_text) ==
    LET valid == st.fsm_data[u].correct_answer_list
        ok == equals_relaxed(user_text, valid)
        ref == st.quiz_sessions[uid]
        scored == [st EXCEPT !.user_scores = update_user_score(st.user_scores, uid, ok)]
    IN  IF ok
        THEN [scored EXCEPT !.heap[ref].score = @ + 1,
                            !.outbox = Plain(u, "correct")]
        ELSE [scored EXCEPT !.outbox = Msg(u, "wrong", <<>>, 0, 0, SeqToSet(valid))]

(***************************************************************************)
(* Suspended handlers.                                                     *)
(***************************************************************************)
\* pc: where the handler resumes; u: the user of its FSM context; uid, sess,
\* ckey: its locals; q: (history) the index of the question it graded.
Task(pc, u, uid, sess, ckey, q) ==
    [pc |-> pc, u |-> u, uid |-> uid, sess |-> sess, ckey |-> ckey, q |-> q]

ClearTask(u) == Task("clear", u, NoUid, 0, None, 0)

Spawn(t) == tasks (+) SetToBag({t})
Retire(t) == tasks (-) SetToBag({t})

CanSpawn == BagCardinality(tasks) < MaxTasks
CanDeliver == nupdates < MaxUpdates

Delivered == nupdates' = nupdates + 1

(***************************************************************************)
(* Handlers: one action per atomic step.                                   *)
(***************************************************************************)
\* bot.py:571-580
cmd_start(u) ==
    /\ CanDeliver /\ Delivered
    /\ Commit([StateClear(Cur, u) EXCEPT !.outbox = Plain(u, "screen")], tasks)

\* bot.py:583-607, 661-667, 681-781, 975-987: handlers that only render.
show_screen(u) ==
    /\ CanDeliver /\ Delivered
    /\ Commit([Cur EXCEPT !.outbox = Plain(u, "screen")], tasks)

\* bot.py:991-1005
progress(u) ==
    /\ CanDeliver /\ Delivered
    /\ Commit([Cur EXCEPT !.user_scores = get_user_stats(user_scores, u),
                          !.outbox = Plain(u, "screen")], tasks)

\* bot.py:611-618
nav_train(u) ==
    /\ CanDeliver /\ Delivered
    /\ Commit([Cur EXCEPT !.user_prefs = get_user_prefs(user_prefs, u),
                          !.fsm_data[u].train_cats = <<>>,
                          !.outbox = Plain(u, "screen")], tasks)

\* bot.py:621-629
set_quiz_len(u, val) ==
    /\ CanDeliver /\ Delivered
    /\ Commit([Cur EXCEPT
                  !.user_prefs = [get_user_prefs(user_prefs, u) EXCEPT ![u].quiz_len = val],
                  !.outbox = Plain(u, "screen")], tasks)

\* bot.py:632-658
choose_train_scope(u, scope) ==
    /\ CanDeliver /\ Delivered
    /\ IF scope = "all"
       THEN Commit([Cur EXCEPT !.fsm_data[u].train_cats = <<>>,
                               !.outbox = Plain(u, "screen")], tasks)
       ELSE Commit([Cur EXCEPT !.outbox = Plain(u, "screen")], tasks)

\* bot.py:670-677
train_pick_cat(u, ckey) ==
    /\ CanDeliver /\ Delivered
    /\ Commit([Cur EXCEPT !.fsm_data[u].train_cats = <<ckey>>,
                          !.outbox = Plain(u, "screen")], tasks)

\* bot.py:785-794
import_cat(u, ckey) ==
    /\ CanDeliver /\ Delivered
    /\ Commit([Cur EXCEPT !.fsm_data[u].import_category = ckey,
                          !.fsm_state[u] = WaitingCsv,
                          !.outbox = Plain(u, "screen")], tasks)

\* bot.py:797-805: up to the awaited bot.get_file.  is_csv: the message
\* carries a document whose name ends in .csv.
on_import_csv(u, is_csv) ==
    /\ CanDeliver /\ Delivered
    /\ fsm_state[u] = WaitingCsv
    /\ IF ~is_csv
       THEN Commit([Cur EXCEPT !.outbox = Plain(u, "not_csv")], tasks)
       ELSE /\ CanSpawn
            /\ Commit(Cur, Spawn(Task("import", u, NoUid, 0, fsm_data[u].import_category, 0)))

RECURSIVE ImportRows_first_wins(_, _, _)
\* Faulty variant of ImportRows: a term the vocabulary already has keeps its
\* translation.
ImportRows_first_wins(st, rows, ckey) ==
    IF rows = <<>> THEN st
    ELSE LET row == Head(rows)
             pl == Strip(row[1])
             ru == Strip(row[2])
         IN  IF Len(row) < 2 \/ pl = <<>> \/ ru = <<>>
             THEN ImportRows_first_wins(st, Tail(rows), ckey)
             ELSE IF pl \in VocabKeys(st.vocabulary)
             THEN ImportRows_first_wins(st, Tail(rows), ckey)
             ELSE ImportRows_first_wins(
                      [st EXCEPT !.vocabulary = VocabSet(@, pl, ru),
                                 !.categories[ckey] = Append(@, pl)],
                      Tail(rows), ckey)

RECURSIVE ImportRows(_, _, _)
\* bot.py:816-829: the loop over the rows; st carries vocabulary and categories.
ImportRows(st, rows, ckey) ==
    IF rows = <<>> THEN st
    ELSE LET row == Head(rows)
             pl == Strip(row[1])
             ru == Strip(row[2])
         IN  IF Len(row) < 2 \/ pl = <<>> \/ ru = <<>>
             THEN ImportRows(st, Tail(rows), ckey)
             ELSE IF pl \in VocabKeys(st.vocabulary)
             THEN ImportRows([st EXCEPT !.vocabulary = VocabSet(@, pl, ru)],
                             Tail(rows), ckey)
             ELSE ImportRows([st EXCEPT !.vocabulary = VocabSet(@, pl, ru),
                                        !.categories[ckey] = Append(@, pl)],
                             Tail(rows), ckey)

\* bot.py:806-837: after the download, to the end.
import_apply(t) ==
    /\ t.pc = "import"
    /\ UNCHANGED nupdates
    /\ LET st0 == IF t.ckey \in DOMAIN categories THEN Cur
                  ELSE [Cur EXCEPT !.categories = DictSet(categories, t.ckey, <<>>)]
           st1 == ImportRows(st0, CsvRows, t.ckey)
       IN  \E cats \in sort_categories_alphabetically(st1.categories) :
               Commit([StateClear([st1 EXCEPT !.categories = cats], t.u)
                          EXCEPT !.outbox = Plain(t.u, "import_done")],
                      Retire(t))

\* bot.py:841-866
quiz_start(u, direction) ==
    /\ CanDeliver /\ Delivered
    /\ \E st \in quiz_start_body(Cur, u, direction) : Commit(st, tasks)

\* Faulty variant of on_answer: update_user_score is called before the
\* session is looked up, so an answer without a session is counted as wrong.
on_answer_counts_first(u, user_text) ==
    /\ CanDeliver /\ Delivered
    /\ CanSpawn
    /\ LET uid == fsm_data[u].user_id
       IN  IF SessionRef(Cur, uid) = 0
           THEN Commit([Cur EXCEPT !.user_scores = update_user_score(@, u, FALSE),
                                   !.outbox = Plain(u, "no_session")],
                       Spawn(ClearTask(u)))
           ELSE Commit(Grade(Cur, u, uid, Strip(user_text)),
                       Spawn(Task("advance", u, uid, quiz_sessions[uid], None,
                                  heap[quiz_sessions[uid]].current_question)))

\* bot.py:896-919: up to the awaited result message (or the awaited error).
on_answer(u, user_text) ==
    /\ CanDeliver /\ Delivered
    /\ CanSpawn
    /\ LET uid == fsm_data[u].user_id
       IN  IF SessionRef(Cur, uid) = 0
           THEN Commit([Cur EXCEPT !.outbox = Plain(u, "no_session")],
                       Spawn(ClearTask(u)))
           ELSE Commit(Grade(Cur, u, uid, Strip(user_text)),
                       Spawn(Task("advance", u, uid, quiz_sessions[uid], None,
                                  heap[quiz_sessions[uid]].current_question)))

\* bot.py:921-926: on_answer after the result message.
answer_advance(t) ==
    /\ t.pc = "advance"
    /\ UNCHANGED nupdates
    /\ \E o \in advance_and_continue(Count(Cur, t.sess), t.u, t.uid, t.sess) :
           Commit(o.st, IF o.suspended THEN Retire(t) (+) SetToBag({ClearTask(t.u)})
                                      ELSE Retire(t))

\* bot.py:904, 924, 937, 942: the state.clear() that follows an awaited message.
clear_state(t) ==
    /\ t.pc = "clear"
    /\ UNCHANGED nupdates
    /\ Commit(StateClear(Cur, t.u), Retire(t))

\* bot.py:929-944 (after the awaited cb.answer)
skip_q(u) ==
    /\ CanDeliver /\ Delivered
    /\ LET uid == fsm_data[u].user_id
       IN  IF SessionRef(Cur, uid) = 0
           THEN /\ CanSpawn
                /\ Commit([Cur EXCEPT !.outbox = Plain(u, "no_session")],
                          Spawn(ClearTask(u)))
           ELSE \E o \in advance_and_continue(Count(Cur, quiz_sessions[uid]),
                                              u, uid, quiz_sessions[uid]) :
                    /\ o.suspended => CanSpawn
                    /\ Commit(o.st, IF o.suspended THEN Spawn(ClearTask(u)) ELSE tasks)

\* bot.py:947-956 (after the awaited cb.answer)
end_q(u) ==
    /\ CanDeliver /\ Delivered
    /\ LET uid == fsm_data[u].user_id
           st1 == IF uid \in DOMAIN quiz_sessions
                  THEN [Cur EXCEPT !.quiz_sessions = DictDel(quiz_sessions, uid)]
                  ELSE Cur
       IN  Commit([StateClear(st1, u) EXCEPT !.outbox = Plain(u, "ended")], tasks)

(***************************************************************************)
(* The program.                                                            *)
(***************************************************************************)
\* bot.py:173-290, 350-352
Init ==
    /\ vocabulary = InitVocabulary
    /\ categories = InitCategories
    /\ user_scores = <<>>
    /\ user_prefs = <<>>
    /\ quiz_sessions = <<>>
    /\ heap = <<>>
    /\ nops = <<>>
    /\ fsm_state = [u \in AllUsers |-> NoState]
    /\ fsm_data = [u \in AllUsers |-> EmptyData]
    /\ tasks = EmptyBag
    /\ outbox = NoMsg
    /\ nupdates = 0
    /\ finished = NoFinish
    /\ call = NoCall
    /\ cli = CliStart

\* An update of user u reaches its handler (Dispatcher, bot.py:1009, 1034).
Update(u) ==
    \/ cmd_start(u)
    \/ show_screen(u)
    \/ progress(u)
    \/ nav_train(u)
    \/ \E val \in QuizLenButtons : set_quiz_len(u, val)
    \/ \E scope \in {"all", "bycat"} : choose_train_scope(u, scope)
    \/ \E ckey \in TrainCatKeys : train_pick_cat(u, ckey)
    \/ \E ckey \in ImportCatKeys : import_cat(u, ckey)
    \/ \E is_csv \in BOOLEAN : on_import_csv(u, is_csv)
    \/ \E direction \in Directions : quiz_start(u, direction)
    \/ \E user_text \in AnswerTexts : on_answer(u, user_text)
    \/ skip_q(u)
    \/ end_q(u)

\* A suspended handler is resumed by the event loop.
Resume(t) ==
    \/ import_apply(t)
    \/ answer_advance(t)
    \/ clear_state(t)

Next ==
    \/ \E u \in Users : Update(u)
    \/ \E t \in BagToSet(tasks) : Resume(t)

Spec == Init /\ [][Next]_vars

(***************************************************************************)
(* The first quiz of a user over a vocabulary longer than the shortest     *)
(* quiz: the choice of the length, of the pool and of the direction, then  *)
(* quiz_start.                                                             *)
(***************************************************************************)
InitStart ==
    /\ vocabulary = StartVocabulary
    /\ categories = StartCategories
    /\ user_scores = <<>>
    /\ user_prefs = <<>>
    /\ quiz_sessions = <<>>
    /\ heap = <<>>
    /\ nops = <<>>
    /\ fsm_state = [u \in AllUsers |-> NoState]
    /\ fsm_data = [u \in AllUsers |-> EmptyData]
    /\ tasks = EmptyBag
    /\ outbox = NoMsg
    /\ nupdates = 0
    /\ finished = NoFinish
    /\ call = NoCall
    /\ cli = CliStart

\* No update follows the quiz_start.
FirstQuiz == quiz_sessions = <<>>

NextStart ==
    \E u \in Users :
        \/ FirstQuiz /\ nav_train(u)
        \/ FirstQuiz /\ \E val \in QuizLenButtons : set_quiz_len(u, val)
        \/ FirstQuiz /\ \E scope \in {"all", "bycat"} : choose_train_scope(u, scope)
        \/ FirstQuiz /\ \E ckey \in TrainCatKeys : train_pick_cat(u, ckey)
        \/ FirstQuiz /\ \E direction \in Directions : quiz_start(u, direction)

SpecStart == InitStart /\ [][NextStart]_vars

(***************************************************************************)
(* Properties.                                                             *)
(***************************************************************************)
\* The session dicts stored in the registry.
Stored == {quiz_sessions[u] : u \in DOMAIN quiz_sessions}

\* The counters of uid, zero where the entry has not been created yet.
StatsOf(scores, uid) == IF uid \in DOMAIN scores THEN scores[uid] ELSE ZeroStats

QuestionKinds == {"question_pl_ru", "question_ru_pl"}

C3_QuestionMeansAwaitingAnswer ==
    outbox.kind \in QuestionKinds => fsm_state[outbox.to] = WaitingForAnswer

C8_IndexWithinTotal ==
    \A r \in Stored :
        /\ 0 <= heap[r].current_question
        /\ heap[r].current_question <= heap[r].total
        /\ heap[r].total = Len(heap[r].words)

\* A stored two-question session whose first question has been handled.
C8_Witness ==
    \E r \in Stored : heap[r].total = 2 /\ heap[r].current_question = 1 /\ nops[r] = 1

\* The number of occurrences of x in the list s.
CountIn(x, s) == Cardinality({i \in 1..Len(s) : s[i] = x})

C2_WitnessShortPool ==
    \E u \in DOMAIN quiz_sessions :
        /\ fsm_data[u].train_cats # <<>>
        /\ heap[quiz_sessions[u]].total < user_prefs[u].quiz_len

\* C4: an on_answer step on an active session adds 1 to the user's
\* total_questions, adds 1 to correct_answers and to the session's score iff
\* the stripped text is acceptable (0 otherwise), and its continuation after
\* the result message adds exactly 1 to the session's current_question.
C4_GradedAnswerCounts ==
    [][ /\ \A u \in Users, txt \in AnswerTexts :
              LET uid == fsm_data[u].user_id
                  ref == SessionRef(Cur, uid)
                  ok == equals_relaxed(Strip(txt), fsm_data[u].correct_answer_list)
                  inc == IF ok THEN 1 ELSE 0
                  was == StatsOf(user_scores, uid)
                  now == StatsOf(user_scores', uid)
              IN  (ref # 0 /\ on_answer(u, txt)) =>
                      /\ now.total_questions = was.total_questions + 1
                      /\ now.correct_answers = was.correct_answers + inc
                      /\ now.quiz_count = was.quiz_count
                      /\ heap'[ref].score = heap[ref].score + inc
                      /\ heap'[ref].current_question = heap[ref].current_question
        /\ \A t \in BagToSet(tasks) :
              answer_advance(t) =>
                  /\ t.sess \in DOMAIN heap' =>
                         /\ heap'[t.sess].current_question
                                = heap[t.sess].current_question + 1
                         /\ heap'[t.sess].score = heap[t.sess].score
                  /\ (t.sess \notin DOMAIN heap' /\ SessionRef(Cur, t.uid) = t.sess) =>
                         /\ finished'.current_question
                                = heap[t.sess].current_question + 1
                         /\ finished'.score = heap[t.sess].score
                  /\ StatsOf(user_scores', t.uid).total_questions
                         = StatsOf(user_scores, t.uid).total_questions
                  /\ StatsOf(user_scores', t.uid).correct_answers
                         = StatsOf(user_scores, t.uid).correct_answers
      ]_vars

\* A two-question quiz answered once right and once wrong, at its summary.
C4_Witness ==
    /\ finished.uid \in Users
    /\ finished.total = 2 /\ finished.current_question = 2 /\ finished.score = 1
    /\ StatsOf(user_scores, finished.uid).total_questions = 2
    /\ StatsOf(user_scores, finished.uid).correct_answers = 1

\* What C5 compares of an outcome of advance_and_continue: the registry, the
\* session dict, the finish transition (whether a summary was made, from
\* which dict, the message sent, whether state.clear() is still to come), the
\* FSM context, and the user's counters with total_questions as given.
Outcome(o, ref, uid, total_questions) ==
    [quiz_sessions |-> o.st.quiz_sessions,
     session |-> o.st.heap[ref],
     finished |-> o.st.finished,
     outbox |-> o.st.outbox,
     suspended |-> o.suspended,
     fsm_state |-> o.st.fsm_state,
     fsm_data |-> o.st.fsm_data,
     total_questions |-> total_questions,
     correct_answers |-> StatsOf(o.st.user_scores, uid).correct_answers,
     quiz_count |-> StatsOf(o.st.user_scores, uid).quiz_count]

\* The outcomes of skip_q on the active session of u (bot.py:939-944).
SkipOutcomes(u) ==
    LET uid == fsm_data[u].user_id
        ref == quiz_sessions[uid]
    IN  advance_and_continue(Count(Cur, ref), u, uid, ref)

\* The outcomes of on_answer with user_text on the active session of u, run
\* to its end with no other handler in between (bot.py:907-926).
AnswerOutcomes(u, user_text) ==
    LET uid == fsm_data[u].user_id
        ref == quiz_sessions[uid]
    IN  advance_and_continue(Count(Grade(Cur, u, uid, Strip(user_text)), ref),
                             u, uid, ref)

\* The texts that match no accepted answer of u's current question.
WrongTexts(u) ==
    {txt \in AnswerTexts :
        ~equals_relaxed(Strip(txt), fsm_data[u].correct_answer_list)}

\* The users with an active session, as skip_q and on_answer find it.
Active == {u \in Users : SessionRef(Cur, fsm_data[u].user_id) # 0}

C10_SessionWordsFixed ==
    [][\A r \in DOMAIN heap \cap DOMAIN heap' :
          /\ heap'[r].words = heap[r].words
          /\ heap'[r].total = heap[r].total
          /\ heap'[r].direction = heap[r].direction
      ]_vars

\* A stored session that has been advanced and holds a pair the vocabulary no
\* longer has: an import overwrote the translation while the quiz was on.
C10_Witness ==
    \E r \in Stored :
        /\ heap[r].current_question >= 1
        /\ \E i \in 1..Len(heap[r].words) :
               heap[r].words[i] \notin SeqToSet(vocabulary)

\* C11: an end_q step by a user for whom a session is stored removes that
\* session, makes no summary, and leaves user_scores unchanged.
C11_EndRemovesSession ==
    [][\A u \in Users :
          (u \in DOMAIN quiz_sessions /\ end_q(u)) =>
              /\ u \notin DOMAIN quiz_sessions'
              /\ outbox'.kind = "ended"
              /\ finished' = NoFinish
              /\ user_scores' = user_scores
      ]_vars

\* C14: the no-active-session message is sent to a user only when no session
\* is stored for that user.
C14_NoSessionOnlyWithoutSession ==
    outbox.kind = "no_session" => outbox.to \notin DOMAIN quiz_sessions

\* C12: a quiz_start step whose selection yields an empty pool sends the
\* empty-pool message, creates no session, and leaves the registry, every
\* session dict and user_scores unchanged.
C12_EmptyPoolRefused ==
    [][\A u \in Users, d \in Directions :
          (flat_items(vocabulary, categories, fsm_data[u].train_cats) = <<>>
             /\ quiz_start(u, d)) =>
              /\ outbox' = Plain(u, "empty_pool")
              /\ quiz_sessions' = quiz_sessions
              /\ heap' = heap
              /\ finished' = NoFinish
              /\ user_scores' = user_scores
      ]_vars

\* The empty-pool message was sent while a partly handled session is stored.
C12_Witness ==
    /\ outbox.kind = "empty_pool"
    /\ outbox.to \in DOMAIN quiz_sessions
    /\ heap[quiz_sessions[outbox.to]].current_question >= 1
    /\ flat_items(vocabulary, categories, fsm_data[outbox.to].train_cats) = <<>>

NextTwo ==
    \/ \E u \in AllUsers, direction \in Directions : quiz_start(u, direction)
    \/ \E u \in AllUsers, user_text \in AnswerTexts : on_answer(u, user_text)
    \/ \E u \in AllUsers : skip_q(u)
    \/ \E u \in AllUsers : end_q(u)
    \/ \E t \in BagToSet(tasks) : answer_advance(t)
    \/ \E t \in BagToSet(tasks) : clear_state(t)

SpecTwo == Init /\ [][NextTwo]_vars

\* The step is a quiz operation on behalf of user a: one of a's updates
\* reaching its handler, or one of a's suspended handlers resuming.  (The
\* message each handler sends is tested first, to tell the handlers apart
\* before their effect is computed.)
StepOf(a) ==
    \/ /\ outbox'.kind = "ended"
       /\ end_q(a)
    \/ /\ outbox'.kind \in {"correct", "wrong", "no_session"}
       /\ \E user_text \in AnswerTexts : on_answer(a, user_text)
    \/ /\ outbox'.kind \in QuestionKinds \cup {"summary", "no_session"}
       /\ skip_q(a)
    \/ \E direction \in Directions :
          /\ outbox'.kind \in {"empty_pool", IF direction = "pl_ru"
                                              THEN "question_pl_ru"
                                              ELSE "question_ru_pl"}
          /\ quiz_start(a, direction)
    \/ \E t \in BagToSet(tasks) : t.u = a /\ (answer_advance(t) \/ clear_state(t))

\* The step leaves the session and the stats of user b as they are.
Untouched(b) ==
    /\ (b \in DOMAIN quiz_sessions) = (b \in DOMAIN quiz_sessions')
    /\ b \in DOMAIN quiz_sessions =>
           /\ quiz_sessions'[b] = quiz_sessions[b]
           /\ heap'[quiz_sessions[b]] = heap[quiz_sessions[b]]
    /\ (b \in DOMAIN user_scores) = (b \in DOMAIN user_scores')
    /\ b \in DOMAIN user_scores => user_scores'[b] = user_scores[b]
    /\ (b \in DOMAIN user_prefs) = (b \in DOMAIN user_prefs')
    /\ fsm_state'[b] = fsm_state[b]
    /\ fsm_data'[b] = fsm_data[b]

\* C15: in every interleaving, the session and the stats of a user b change
\* only in a step that is a quiz operation on behalf of b, and that step
\* leaves the session and the stats of every other user unchanged.
C15_UsersIndependent ==
    [][\A b \in AllUsers :
          Untouched(b) \/ (StepOf(b) /\ \A c \in AllUsers \ {b} : Untouched(c))
      ]_vars

\* Both users are in the middle of a quiz; one has answered, the other has
\* skipped.
C15_Witness ==
    /\ DOMAIN quiz_sessions = AllUsers
    /\ \A u \in AllUsers : heap[quiz_sessions[u]].current_question = 1
    /\ StatsOf(user_scores, 1).total_questions = 1
    /\ StatsOf(user_scores, 2).total_questions = 0

\* The session a question message is about, and its current pair.
AskedSession == heap[quiz_sessions[outbox.to]]
AskedPair == AskedSession.words[AskedSession.current_question + 1]
AskedValid == fsm_data[outbox.to].correct_answer_list

\* The question shows the Polish term for pl_ru and the Russian one for
\* ru_pl, with the number of the question and the total.
QuestionShown ==
    /\ outbox.to \in DOMAIN quiz_sessions
    /\ AskedSession.current_question < AskedSession.total
    /\ outbox.x = AskedSession.current_question + 1
    /\ outbox.y = AskedSession.total
    /\ outbox.kind = (IF AskedSession.direction = "pl_ru"
                      THEN "question_pl_ru" ELSE "question_ru_pl")
    /\ outbox.text = (IF AskedSession.direction = "pl_ru"
                      THEN AskedPair[1] ELSE AskedPair[2])
    /\ fsm_data[outbox.to].user_id = outbox.to

\* C16 as stated: whenever a question has been sent, it shows the Polish
\* term for pl_ru and the Russian one for ru_pl, and the stored accepted
\* answers are exactly the normalizer's set for the other side of the pair.
C16_AcceptedIsOtherSide ==
    outbox.kind \in QuestionKinds =>
        /\ QuestionShown
        /\ SeqToSet(AskedValid)
              = valid_answers_set(IF AskedSession.direction = "pl_ru"
                                  THEN AskedPair[2] ELSE AskedPair[1])

\* C16 amended: for ru_pl the stored list is valid_answers_pl of the Polish
\* term; for pl_ru it is the Russian term as it is, followed by the digit
\* forms among valid_answers_pl of the Polish term.
C16_AcceptedAnswers ==
    outbox.kind \in QuestionKinds =>
        /\ QuestionShown
        /\ AskedSession.direction = "ru_pl" =>
               /\ AskedValid \in valid_answers_pl(AskedPair[1])
               /\ SeqToSet(AskedValid) = valid_answers_set(AskedPair[1])
        /\ AskedSession.direction = "pl_ru" =>
               /\ AskedValid[1] = AskedPair[2]
               /\ SeqToSet(AskedValid)
                     = {AskedPair[2]}
                       \cup {a \in valid_answers_set(AskedPair[1]) : IsDigit(a)}

\* "pięć" is asked pl_ru: the accepted answers are "пять" and "5".
C16_Witness ==
    /\ outbox.kind = "question_pl_ru"
    /\ outbox.text = PL_piec
    /\ AskedValid = <<RU_piec, Str(5)>>

(***************************************************************************)
(* The answer normalizer on its own: one call of a function per behaviour, *)
(* its arguments drawn from bounded sets, the trainer left as constructed. *)
(***************************************************************************)
\* Longest string given to _strip_accents.
MaxLen == 3

\* " ", "A", "a", "ą", "ł" and the combining acute accent U+0301.
Alphabet == {32, 65, 97, 261, 322, 769}

RECURSIVE StringsUpTo(_)
StringsUpTo(n) ==
    IF n = 0 THEN {<<>>}
    ELSE LET shorter == StringsUpTo(n - 1)
         IN  shorter \cup {Append(s, c) : s \in shorter, c \in Alphabet}

\* No user has been seen and no update has been delivered.
HandlersIdle ==
    /\ user_scores = <<>>
    /\ user_prefs = <<>>
    /\ quiz_sessions = <<>>
    /\ heap = <<>>
    /\ nops = <<>>
    /\ fsm_state = [u \in AllUsers |-> NoState]
    /\ fsm_data = [u \in AllUsers |-> EmptyData]
    /\ tasks = EmptyBag
    /\ outbox = NoMsg
    /\ nupdates = 0
    /\ finished = NoFinish
    /\ cli = CliStart

\* The trainer and the dispatcher as Init leaves them.
TrainerIdle ==
    /\ vocabulary = InitVocabulary
    /\ categories = InitCategories
    /\ HandlersIdle

TrainerUnchanged ==
    UNCHANGED <<vocabulary, categories, user_scores, user_prefs, quiz_sessions,
                heap, fsm_state, fsm_data, tasks, outbox, nupdates, nops, finished,
                cli>>

InitFold ==
    /\ TrainerIdle
    /\ \E s \in StringsUpTo(MaxLen) : call = [NoCall EXCEPT !.s = s]

\* bot.py:39-42: _strip_accents(s) is called and returns.
call_strip_accents ==
    /\ call.fn = "none"
    /\ call' = [call EXCEPT !.fn = "_strip_accents", !.text = _strip_accents(call.s)]
    /\ TrainerUnchanged

NextFold == call_strip_accents

SpecFold == InitFold /\ [][NextFold]_vars

\* C18: what _strip_accents returns is a fixed point of _strip_accents.
C18_FoldIdempotent ==
    call.fn = "_strip_accents" => _strip_accents(call.text) = call.text

\* Longest string given to equals_relaxed and valid_answers_pl together.
MaxPairLen == 2

\* The answers: the short strings and the texts users send.
TextInputs == StringsUpTo(MaxPairLen) \cup AnswerTexts

\* The expected terms: the short strings, "pięć" and "dwa".
ExpectedInputs == StringsUpTo(MaxPairLen) \cup {PL_piec, PL_dwa}

InitAccept ==
    /\ TrainerIdle
    /\ \E user_text \in TextInputs, expected_pl \in ExpectedInputs :
           call = [NoCall EXCEPT !.s = user_text, !.expected_pl = expected_pl]

\* bot.py:130-144: equals_relaxed(user_text, valid_answers_pl(expected_pl)).
call_equals_relaxed ==
    /\ call.fn = "none"
    /\ \E valid \in valid_answers_pl(call.expected_pl) :
           call' = [call EXCEPT !.fn = "equals_relaxed",
                                !.valid = valid,
                                !.bool = equals_relaxed(call.s, valid)]
    /\ TrainerUnchanged

NextAccept == call_equals_relaxed

SpecAccept == InitAccept /\ [][NextAccept]_vars

\* C17: equals_relaxed(T, valid_answers_pl(E)) is true whenever T and E fold
\* to the same string, and equals_relaxed(T, S) is true iff the fold of T is
\* the fold of some member of S.
C17_FoldedMatchAccepted ==
    call.fn = "equals_relaxed" =>
        /\ _strip_accents(call.s) = _strip_accents(call.expected_pl) => call.bool
        /\ call.bool = (\E i \in 1..Len(call.valid) :
                           _strip_accents(call.s) = _strip_accents(call.valid[i]))

\* " PIEC " is accepted for "pięć": the texts differ, their folds are equal.
C17_Witness ==
    /\ call.fn = "equals_relaxed"
    /\ call.expected_pl = PL_piec
    /\ call.s # call.expected_pl
    /\ _strip_accents(call.s) = _strip_accents(call.expected_pl)
    /\ call.bool

\* "A" + U+0301 is accepted for "ą": a combining mark against a precomposed
\* letter.
C17_WitnessMarks ==
    /\ call.fn = "equals_relaxed"
    /\ call.expected_pl = <<261>>
    /\ call.s = <<65, 769>>
    /\ call.bool

\* Most words of a phrase given to _word_to_number_pl.
MaxWords == 2

\* The keys of the numeral table.
NumWords == {e[1] : e \in _NUM_WORD}

\* "dwa", "sto", "zero", "DWA", and two words the table does not have,
\* "nie" and "5".
WordPool ==
    {PL_dwa, <<115, 116, 111>>, <<122, 101, 114, 111>>, <<68, 87, 65>>,
     <<110, 105, 101>>, <<53>>}

\* The phrases of 1..n words of the pool, separated by one space.
RECURSIVE Phrases(_)
Phrases(n) ==
    IF n = 1 THEN WordPool
    ELSE LET shorter == Phrases(n - 1)
         IN  shorter \cup {ph \o <<32>> \o w : ph \in shorter, w \in WordPool}

NumeralInputs == NumWords \cup Phrases(MaxWords)

InitNumeral ==
    /\ TrainerIdle
    /\ \E s \in NumeralInputs : call = [NoCall EXCEPT !.s = s, !.expected_pl = s]

\* bot.py:114-127: _word_to_number_pl(s) is called and returns.
call_word_to_number_pl ==
    /\ call.fn = "none"
    /\ call' = [call EXCEPT !.fn = "_word_to_number_pl",
                            !.number = _word_to_number_pl(call.s)]
    /\ TrainerUnchanged

\* bot.py:130-139: valid_answers_pl(expected_pl) is called and returns.
call_valid_answers_pl ==
    /\ call.fn = "none"
    /\ \E valid \in valid_answers_pl(call.expected_pl) :
           call' = [call EXCEPT !.fn = "valid_answers_pl", !.valid = valid]
    /\ TrainerUnchanged

NextNumeral ==
    \/ call_word_to_number_pl
    \/ call_valid_answers_pl

SpecNumeral == InitNumeral /\ [][NextNumeral]_vars

\* C19: for every key W of the numeral table, with value V, what
\* valid_answers_pl(W) returns contains the decimal string of V.
C19_DigitFormOfNumeral ==
    (call.fn = "valid_answers_pl" /\ call.expected_pl \in NumWords) =>
        \E i \in 1..Len(call.valid) :
            call.valid[i] = Str(NumWordVal(call.expected_pl))

\* valid_answers_pl("zero") has returned a list with "0" in it.
C19_Witness ==
    /\ call.fn = "valid_answers_pl"
    /\ call.expected_pl = <<122, 101, 114, 111>>
    /\ <<48>> \in SeqToSet(call.valid)

\* valid_answers_pl("pięćset") has returned "piecset", "pięćset", "500" in
\* some order.
C19_WitnessDiacritics ==
    /\ call.fn = "valid_answers_pl"
    /\ call.expected_pl \in NumWords
    /\ _strip_accents(call.expected_pl) # call.expected_pl
    /\ NumWordVal(call.expected_pl) = 500
    /\ Str(500) \in SeqToSet(call.valid)
    /\ Len(call.valid) = 3

\* A word of the folded phrase is not a key of the numeral table.
HasUnknownWord(s) ==
    \E w \in SeqToSet(Split(_strip_accents(s))) : w \notin NumWords

\* C20: for a phrase with a word the table does not have,
\* _word_to_number_pl returns None and valid_answers_pl returns nothing but
\* the phrase and its diacritic-free form.
C20_UnknownWordNoNumber ==
    HasUnknownWord(call.s) =>
        /\ call.fn = "_word_to_number_pl" => call.number = NoNumber
        /\ call.fn = "valid_answers_pl" =>
               SeqToSet(call.valid) \subseteq {call.expected_pl,
                                               _strip_accents(call.expected_pl)}

\* _word_to_number_pl("sto nie") has returned None, not 100.
C20_Witness ==
    /\ call.fn = "_word_to_number_pl"
    /\ call.s = <<115, 116, 111, 32, 110, 105, 101>>
    /\ call.number = NoNumber

\* The sum of the table's values of the words of a phrase.
RECURSIVE SumOfValues(_)
SumOfValues(parts) ==
    IF parts = <<>> THEN 0
    ELSE NumWordVal(Head(parts)) + SumOfValues(Tail(parts))

\* C21: for a non-empty phrase whose words are all keys of the numeral
\* table, _word_to_number_pl returns the sum of their values, also when the
\* sum is 0.
C21_ZeroSumReturned ==
    LET parts == Split(_strip_accents(call.s))
    IN  (/\ call.fn = "_word_to_number_pl"
         /\ parts # <<>>
         /\ ~HasUnknownWord(call.s)) =>
            call.number = SumOfValues(parts)

\* C22: valid_answers_pl(E) holds E, the folded form of E exactly when it
\* differs from the lower-cased E, the decimal string of n exactly when
\* _word_to_number_pl(E) is a number n, each once, and nothing else.
C22_ValidAnswersExactly ==
    call.fn = "valid_answers_pl" =>
        LET E == call.expected_pl
            folded == _strip_accents(E)
            n == _word_to_number_pl(E)
            digits == IF n # NoNumber THEN {Str(n)} ELSE {}
        IN  /\ \A a \in SeqToSet(call.valid) \cup {E, folded} \cup digits :
                   a \in SeqToSet(call.valid) <=>
                       \/ a = E
                       \/ a = folded /\ folded # Lower(E)
                       \/ a \in digits
            /\ \A i, j \in 1..Len(call.valid) :
                   call.valid[i] = call.valid[j] => i = j

\* valid_answers_pl("pięćdziesiąt") has returned "pięćdziesiąt",
\* "piecdziesiat" and "50".
C22_Witness ==
    /\ call.fn = "valid_answers_pl"
    /\ call.expected_pl = <<112, 105, 281, 263, 100, 122, 105, 101, 115, 105, 261, 116>>
    /\ SeqToSet(call.valid) =
           {call.expected_pl,
            <<112, 105, 101, 99, 100, 122, 105, 101, 115, 105, 97, 116>>,
            <<53, 48>>}
    /\ Len(call.valid) = 3

\* valid_answers_pl("DWA") has returned "DWA" and "2": the folded form "dwa"
\* is the lower-cased term and is not listed.
C22_WitnessNoFolded ==
    /\ call.fn = "valid_answers_pl"
    /\ call.expected_pl = <<68, 87, 65>>
    /\ SeqToSet(call.valid) = {<<68, 87, 65>>, <<50>>}

(***************************************************************************)
(* flat_items as a function of its argument: one call on a trainer whose   *)
(* categories overlap and name a word the vocabulary does not have.        *)
(***************************************************************************)

\* Most category names in the list given to flat_items.
MaxKeys == 3

\* bot.py:175-244, reduced to three entries.
PoolVocabulary ==
    <<<<PL_piec, RU_piec>>, <<PL_tak, RU_tak>>, <<PL_dwa, RU_dwa>>>>

\* bot.py:247-284: two built-in categories and "rutyna", which
\* load_csv_vocabulary made from data/rutyna.csv with the rows "dwa;два" and
\* "tak;да"; each list sorted and without repeats (bot.py:284).
PoolCategories ==
    ("liczby_0_10" :> <<PL_dwa, PL_piec>>)
    @@ ("liczby_100_1000" :> <<PL_piecset_typo>>)
    @@ ("rutyna" :> <<PL_dwa, PL_tak>>)

\* The names a list of category keys is made of; "nieznana" is no category.
PoolKeyNames == {"liczby_0_10", "liczby_100_1000", "rutyna", "nieznana"}

\* The lists of at most n names; the empty list stands for None and [],
\* which bot.py:338 does not tell apart.
RECURSIVE KeyLists(_)
KeyLists(n) ==
    IF n = 0 THEN {<<>>}
    ELSE LET shorter == KeyLists(n - 1)
         IN  shorter \cup {Append(ks, k) : ks \in shorter, k \in PoolKeyNames}

InitPool ==
    /\ vocabulary = PoolVocabulary
    /\ categories = PoolCategories
    /\ HandlersIdle
    /\ \E ks \in KeyLists(MaxKeys) : call = [NoCall EXCEPT !.pool_keys = ks]

\* bot.py:335-346: trainer.flat_items(pool_keys) is called and returns.
call_flat_items ==
    /\ call.fn = "none"
    /\ call' = [call EXCEPT !.fn = "flat_items",
                            !.items = flat_items(vocabulary, categories,
                                                 call.pool_keys)]
    /\ TrainerUnchanged

NextPool == call_flat_items

SpecPool == InitPool /\ [][NextPool]_vars

\* The words of the categories a list of keys names.
NamedWords(ks) ==
    UNION {SeqToSet(categories[ks[i]]) :
              i \in {j \in 1..Len(ks) : ks[j] \in DOMAIN categories}}

C24_PoolToleratesInconsistentData ==
    /\ call.fn = "none" => ENABLED call_flat_items
    /\ call.fn = "flat_items" =>
           \A i \in 1..Len(call.items) :
               /\ call.items[i][1] \in VocabKeys(vocabulary)
               /\ call.items[i][2] = VocabGet(vocabulary, call.items[i][1])
               /\ call.pool_keys # <<>> =>
                      call.items[i][1] \in NamedWords(call.pool_keys)

\* flat_items(["liczby_100_1000", "nieznana", "rutyna"]) has returned the two
\* pairs of "rutyna": the misspelt word of the first category and the
\* unknown name added nothing.
C24_Witness ==
    /\ call.fn = "flat_items"
    /\ call.pool_keys = <<"liczby_100_1000", "nieznana", "rutyna">>
    /\ PL_piecset_typo \in NamedWords(call.pool_keys) \ VocabKeys(vocabulary)
    /\ call.items = <<<<PL_dwa, RU_dwa>>, <<PL_tak, RU_tak>>>>

(***************************************************************************)
(* The start of a quiz when the length comes from any callback data:       *)
(* set_quiz_len stores int() of whatever follows "set_ql:" (bot.py:623),   *)
(* and a callback query can carry data that no button of the keyboard has. *)
(***************************************************************************)

\* The integers of the keyboard (bot.py:496-498) and three it does not offer.
QuizLenData == QuizLenButtons \cup {-1, 0, 1}

NextAnyLen ==
    \E u \in Users :
        \/ nav_train(u)
        \/ \E val \in QuizLenData : set_quiz_len(u, val)
        \/ \E scope \in {"all", "bycat"} : choose_train_scope(u, scope)
        \/ \E ckey \in TrainCatKeys : train_pick_cat(u, ckey)
        \/ \E direction \in Directions : quiz_start(u, direction)

SpecAnyLen == Init /\ [][NextAnyLen]_vars

\* C25: every session quiz_start creates has total >= 1, whatever length
\* set_quiz_len stored: no stored session and no summary has total 0.
C25_NoEmptySession ==
    /\ \A r \in Stored : heap[r].total >= 1
    /\ finished.uid # NoUid => finished.total >= 1

\* C26: in every step the entry of a user in user_scores stays, none of
\* total_questions, correct_answers and quiz_count decreases, and an entry
\* the step creates holds what the step itself added to zeros.
C26_CountersNeverDecrease ==
    [][\A u \in AllUsers :
          LET old == StatsOf(user_scores, u)
              new == StatsOf(user_scores', u)
          IN  /\ u \in DOMAIN user_scores => u \in DOMAIN user_scores'
              /\ new.total_questions >= old.total_questions
              /\ new.correct_answers >= old.correct_answers
              /\ new.quiz_count >= old.quiz_count
              /\ u \notin DOMAIN user_scores =>
                     /\ new.total_questions \in 0..1
                     /\ new.correct_answers \in 0..1
                     /\ new.quiz_count \in 0..1 ]_vars

\* A user has answered two questions, one of them correctly, and completed
\* the quiz.
C26_Witness ==
    \E u \in DOMAIN user_scores :
        /\ user_scores[u].total_questions = 2
        /\ user_scores[u].correct_answers = 1
        /\ user_scores[u].quiz_count = 1

(***************************************************************************)
(* Loading and importing as functions of the rows csv.reader yields: one   *)
(* file of data/ read by load_csv_vocabulary at construction, or one file  *)
(* uploaded to on_import_csv.                                              *)
(***************************************************************************)

\* Most rows of a file.
MaxRows == 2

\* " dwa ;два", "dwa;так", "tak;так", " ;нет", "nie;", "nie", an empty line,
\* "nie;нет;x".
RowPool == {
    <<<<32, 100, 119, 97, 32>>, RU_dwa>>,
    <<PL_dwa, RU_tak2>>,
    <<PL_tak, RU_tak2>>,
    <<<<32>>, <<1085, 1077, 1090>>>>,
    <<<<110, 105, 101>>, <<>>>>,
    <<<<110, 105, 101>>>>,
    <<>>,
    <<<<110, 105, 101>>, <<1085, 1077, 1090>>, <<120>>>>
}

\* The files of at most n rows.
RECURSIVE RowLists(_)
RowLists(n) ==
    IF n = 0 THEN {<<>>}
    ELSE LET shorter == RowLists(n - 1)
         IN  shorter \cup {Append(rs, r) : rs \in shorter, r \in RowPool}

RECURSIVE LoadRows(_, _, _)
\* bot.py:302-308: the loop over the rows of one file.
LoadRows(st, rows, cat_key) ==
    IF rows = <<>> THEN st
    ELSE LET row == Head(rows)
             pl == Strip(row[1])
             ru == Strip(row[2])
         IN  IF Len(row) >= 2 /\ pl # <<>> /\ ru # <<>>
             THEN LoadRows([st EXCEPT !.vocabulary = VocabSet(@, pl, ru),
                                      !.categories[cat_key] = Append(@, pl)],
                           Tail(rows), cat_key)
             ELSE LoadRows(st, Tail(rows), cat_key)

\* bot.py:292-313, for one file data/<cat_key>.csv.
load_csv_vocabulary(st, rows, cat_key) ==
    LoadRows(IF cat_key \in DOMAIN st.categories THEN st
             ELSE [st EXCEPT !.categories = DictSet(@, cat_key, <<>>)],
             rows, cat_key)

InitLoad ==
    /\ TrainerIdle
    /\ \E rows \in RowLists(MaxRows), ckey \in ImportCatKeys :
           call = [NoCall EXCEPT !.rows = rows, !.ckey = ckey]

\* bot.py:280-284: the constructor loads the file and sorts the categories.
call_load_csv_vocabulary ==
    /\ call.fn = "none"
    /\ LET st == load_csv_vocabulary(Cur, call.rows, call.ckey)
       IN  /\ vocabulary' = st.vocabulary
           /\ categories' \in sort_categories_alphabetically(st.categories)
    /\ call' = [call EXCEPT !.fn = "load_csv_vocabulary"]
    /\ UNCHANGED <<user_scores, user_prefs, quiz_sessions, heap, fsm_state,
                   fsm_data, tasks, outbox, nupdates, nops, finished, cli>>

\* bot.py:806-837: on_import_csv from the downloaded file to its end, for
\* the file of user u.
call_on_import_csv(u) ==
    /\ call.fn = "none"
    /\ LET st0 == IF call.ckey \in DOMAIN categories THEN Cur
                  ELSE [Cur EXCEPT !.categories = DictSet(categories, call.ckey, <<>>)]
           st1 == StateClear(ImportRows(st0, call.rows, call.ckey), u)
       IN  /\ vocabulary' = st1.vocabulary
           /\ categories' \in sort_categories_alphabetically(st1.categories)
           /\ fsm_state' = st1.fsm_state
           /\ fsm_data' = st1.fsm_data
    /\ outbox' = Plain(u, "import_done")
    /\ call' = [call EXCEPT !.fn = "on_import_csv"]
    /\ UNCHANGED <<user_scores, user_prefs, quiz_sessions, heap, tasks,
                   nupdates, nops, finished, cli>>

NextLoad ==
    \/ call_load_csv_vocabulary
    \/ \E u \in Users : call_on_import_csv(u)

SpecLoad == InitLoad /\ [][NextLoad]_vars

\* A row with two fields or more whose term and translation are not blank.
WellFormed(row) ==
    Len(row) >= 2 /\ Strip(row[1]) # <<>> /\ Strip(row[2]) # <<>>

\* The positions of the well-formed rows carrying the term w.
RowsOf(rows, w) ==
    {i \in 1..Len(rows) : WellFormed(rows[i]) /\ Strip(rows[i][1]) = w}

\* C27: after a load or an import of rows, a term carried by a well-formed
\* row maps to the translation of the last such row, every other term is as
\* before, and a file without a well-formed row leaves the vocabulary as it
\* was.
C27_LastWellFormedRowWins ==
    [][call'.fn \in {"load_csv_vocabulary", "on_import_csv"} =>
          LET rows == call.rows
              carried == {Strip(rows[i][1]) :
                             i \in {j \in 1..Len(rows) : WellFormed(rows[j])}}
          IN  /\ VocabKeys(vocabulary') = VocabKeys(vocabulary) \cup carried
              /\ \A w \in carried :
                     LET last == CHOOSE i \in RowsOf(rows, w) :
                                     \A j \in RowsOf(rows, w) : j <= i
                     IN  VocabGet(vocabulary', w) = Strip(rows[last][2])
              /\ \A w \in VocabKeys(vocabulary) \ carried :
                     VocabGet(vocabulary', w) = VocabGet(vocabulary, w)
              /\ carried = {} => vocabulary' = vocabulary ]_vars

\* The upload " ;нет" / "tak;так" has been imported: the blank-term row was
\* skipped and the row after it replaced "tak" -> "да" by "tak" -> "так".
C27_Witness ==
    /\ call.fn = "on_import_csv"
    /\ call.rows = <<<<<<32>>, <<1085, 1077, 1090>>>>, <<PL_tak, RU_tak2>>>>
    /\ VocabGet(vocabulary, PL_tak) = RU_tak2
    /\ VocabKeys(vocabulary) = VocabKeys(InitVocabulary)

\* The file " dwa ;два" / "dwa;так" has been loaded: "dwa" maps to "так".
C27_WitnessLoad ==
    /\ call.fn = "load_csv_vocabulary"
    /\ call.rows = <<<<<<32, 100, 119, 97, 32>>, RU_dwa>>, <<PL_dwa, RU_tak2>>>>
    /\ PL_dwa \in VocabKeys(vocabulary)
    /\ VocabGet(vocabulary, PL_dwa) = RU_tak2

\* The step is skip_q or the second half of on_answer working on the session
\* dict r.
Advances(r) ==
    \/ \E u \in Users :
           /\ SessionRef(Cur, fsm_data[u].user_id) = r
           /\ skip_q(u)
    \/ \E t \in BagToSet(tasks) :
           /\ t.pc = "advance" /\ t.sess = r
           /\ answer_advance(t)

\* C28: between the steps of the handlers every session stored in
\* quiz_sessions has current_question < total; the step whose increment makes
\* a stored session's current_question reach total also adds 1 to quiz_count
\* and removes the session.
C28_StoredSessionUnfinished ==
    /\ [](\A r \in Stored : heap[r].current_question < heap[r].total)
    /\ [][\A u \in DOMAIN quiz_sessions :
              LET r == quiz_sessions[u]
              IN  (heap[r].current_question + 1 >= heap[r].total /\ Advances(r)) =>
                      /\ u \notin DOMAIN quiz_sessions'
                      /\ StatsOf(user_scores', u).quiz_count =
                             StatsOf(user_scores, u).quiz_count + 1
                      /\ finished'.uid = u
                      /\ finished'.current_question = heap[r].total ]_vars

\* The second of two questions has just been handled: the summary went out,
\* the session is gone and the quiz is counted.
C28_Witness ==
    /\ finished.uid \in Users
    /\ finished.total = 2
    /\ finished.current_question = 2
    /\ finished.uid \notin DOMAIN quiz_sessions
    /\ user_scores[finished.uid].quiz_count = 1

C30_ScoreWithinCorrectAnswers ==
    /\ \A u \in DOMAIN user_scores :
           user_scores[u].correct_answers <= user_scores[u].total_questions
    /\ \A u \in DOMAIN quiz_sessions :
           heap[quiz_sessions[u]].score <= StatsOf(user_scores, u).correct_answers

\* A user with one wrong and one right answer, the right one counted in the
\* session still stored.
C30_Witness ==
    \E u \in DOMAIN quiz_sessions :
        /\ heap[quiz_sessions[u]].score = 1
        /\ StatsOf(user_scores, u).correct_answers = 1
        /\ StatsOf(user_scores, u).total_questions = 2

\* C31: whenever on_answer grades an answer, the list it takes from the FSM
\* data is one that ask_question computes for words[current_question] of the
\* session stored for the user, in that session's direction.
C31_GradedAgainstCurrentPair ==
    [][\A u \in Users, user_text \in AnswerTexts :
          LET uid == fsm_data[u].user_id
          IN  (SessionRef(Cur, uid) # 0 /\ on_answer(u, user_text)) =>
                  LET sess == heap[quiz_sessions[uid]]
                      i == sess.current_question
                  IN  /\ i < sess.total
                      /\ fsm_data[u].correct_answer_list \in
                             ValidFor(sess.direction, sess.words[i + 1][1],
                                      sess.words[i + 1][2]) ]_vars

\* An answer to the second question of a session has just been graded
\* against the list of the second pair.
C31_Witness ==
    \E u \in DOMAIN quiz_sessions :
        LET sess == heap[quiz_sessions[u]]
        IN  /\ sess.current_question = 1
            /\ sess.total = 2
            /\ outbox.kind \in {"correct", "wrong"}
            /\ fsm_data[u].correct_answer_list \in
                   ValidFor(sess.direction, sess.words[2][1], sess.words[2][2])
            /\ fsm_data[u].correct_answer_list \notin
                   ValidFor(sess.direction, sess.words[1][1], sess.words[1][2])

(***************************************************************************)
(* The command-line revision (src/polish_trainer_bot.py): take_quiz, run   *)
(* from the menu any number of times.  It is single-threaded; a step runs  *)
(* from one input() to the next.                                           *)
(***************************************************************************)

\* Most quizzes taken in a run of the program.
MaxQuizzes == 2

\* polish_trainer_bot.py:139: the 10 of min(10, len(self.vocabulary)).
CliQuizLen == 10

\* polish_trainer_bot.py:12-72, reduced to eleven of its entries, one more
\* than a quiz asks; the program never assigns the dict after __init__.
\*   "cześć" "hi/hello", "tak" "yes", "nie" "no", "mama" "mom", "tata" "dad",
\*   "syn" "son", "dwa" "two", "trzy" "three", "pięć" "five", "ser" "cheese",
\*   "nie rozumiem" "I don't understand"
CliVocabulary == <<
    <<<<99, 122, 101, 347, 263>>, <<104, 105, 47, 104, 101, 108, 108, 111>>>>,
    <<<<116, 97, 107>>, <<121, 101, 115>>>>,
    <<<<110, 105, 101>>, <<110, 111>>>>,
    <<<<109, 97, 109, 97>>, <<109, 111, 109>>>>,
    <<<<116, 97, 116, 97>>, <<100, 97, 100>>>>,
    <<<<115, 121, 110>>, <<115, 111, 110>>>>,
    <<<<100, 119, 97>>, <<116, 119, 111>>>>,
    <<<<116, 114, 122, 121>>, <<116, 104, 114, 101, 101>>>>,
    <<<<112, 105, 281, 263>>, <<102, 105, 118, 101>>>>,
    <<<<115, 101, 114>>, <<99, 104, 101, 101, 115, 101>>>>,
    <<<<110, 105, 101, 32, 114, 111, 122, 117, 109, 105, 101, 109>>, <<73, 32, 100, 111, 110, 39, 116, 32, 117, 110, 100, 101, 114, 115, 116, 97, 110, 100>>>>
>>

\* The text in capital letters (ASCII).
Shouted(s) == [j \in 1..Len(s) |-> IF s[j] >= 97 /\ s[j] <= 122 THEN s[j] - 32 ELSE s[j]]

\* What the user types for the entry at position k: the translation in
\* capitals between spaces, or "?".
CliAnswers(k) ==
    {<<32>> \o Shouted(CliVocabulary[k][2]) \o <<32>>, <<63>>}

\* Faulty variant of CliSampleNext: the entries are drawn with replacement.
CliSampleNext_with_replacement(asked) == 1..Len(CliVocabulary)

\* polish_trainer_bot.py:140: random.sample draws without replacement.  The
\* positions that can come next in quiz_words after those of `asked`; the
\* model draws each entry when its question is asked.
CliSampleNext(asked) == (1..Len(CliVocabulary)) \ asked

BotUnchanged ==
    UNCHANGED <<vocabulary, categories, user_scores, user_prefs, quiz_sessions,
                heap, fsm_state, fsm_data, tasks, outbox, nupdates, nops, finished,
                call>>

\* polish_trainer_bot.py:221-222, 135-144: option 2 of the menu, up to the
\* first question.
take_quiz_begin ==
    /\ cli.pc = "menu"
    /\ cli.quizzes < MaxQuizzes
    /\ cli' = [cli EXCEPT !.pc = "quiz",
                          !.num_questions = Min(CliQuizLen, Len(CliVocabulary)),
                          !.asked = {}, !.i = 0, !.correct_answers = 0,
                          !.score0 = cli.score, !.total0 = cli.total_questions,
                          !.matching = 0]
    /\ BotUnchanged

\* polish_trainer_bot.py:146-158: one turn of the loop, the question and the
\* line read by input().
take_quiz_ask ==
    /\ cli.pc = "quiz"
    /\ cli.i < cli.num_questions
    /\ \E k \in CliSampleNext(cli.asked) : \E typed \in CliAnswers(k) :
           LET correct_answer == CliVocabulary[k][2]
               user_answer == Lower(Strip(typed))
               ok == user_answer = Lower(correct_answer)
               same == Lower(Strip(typed)) = Lower(Strip(correct_answer))
           IN  cli' = [cli EXCEPT
                          !.asked = @ \cup {k},
                          !.i = @ + 1,
                          !.correct_answers = IF ok THEN @ + 1 ELSE @,
                          !.score = IF ok THEN @ + 1 ELSE @,
                          !.total_questions = @ + 1,
                          !.matching = IF same THEN @ + 1 ELSE @]
    /\ BotUnchanged

\* polish_trainer_bot.py:159-171: the summary, up to "Press Enter to
\* continue"; the percentage divides by num_questions.
take_quiz_end ==
    /\ cli.pc = "quiz"
    /\ cli.i = cli.num_questions
    /\ cli' = [cli EXCEPT !.pc = IF cli.num_questions = 0 THEN "crashed" ELSE "done",
                          !.quizzes = @ + 1]
    /\ BotUnchanged

\* polish_trainer_bot.py:171, 216-217: Enter, and the menu again.
take_quiz_return ==
    /\ cli.pc = "done"
    /\ cli' = [cli EXCEPT !.pc = "menu"]
    /\ BotUnchanged

InitCli == TrainerIdle /\ call = NoCall

NextCli ==
    \/ take_quiz_begin
    \/ take_quiz_ask
    \/ take_quiz_end
    \/ take_quiz_return

SpecCli == InitCli /\ [][NextCli]_vars

\* C32: a take_quiz run asks pairwise distinct vocabulary entries, and when
\* it ends it has asked min(10, |vocabulary|) of them, total_questions has
\* grown by that number and score by the number of answers equal to the
\* expected translation up to case and surrounding whitespace; at all times
\* 0 <= score <= total_questions.
C32_CliQuizCounts ==
    /\ cli.asked \subseteq 1..Len(CliVocabulary)
    /\ Cardinality(cli.asked) = cli.i
    /\ cli.pc = "done" =>
           /\ cli.i = Min(10, Len(CliVocabulary))
           /\ cli.total_questions = cli.total0 + Min(10, Len(CliVocabulary))
           /\ cli.score = cli.score0 + cli.matching
    /\ 0 <= cli.score /\ cli.score <= cli.total_questions

\* The second quiz has ended: twenty questions asked in all, some of each
\* quiz answered correctly and some not.
C32_Witness ==
    /\ cli.pc = "done"
    /\ cli.quizzes = 2
    /\ cli.total_questions = 20
    /\ cli.score0 \in 1..9
    /\ cli.matching \in 1..9
    /\ cli.score = cli.score0 + cli.matching

====
